---- MODULE Spec2Model ----
(***************************************************************************)
(* Model of uname26 (uname26.c): a launcher that sets the UNAME26          *)
(* personality on the calling process and then replaces the process image  *)
(* with the program named by its first argument.                           *)
(*                                                                         *)
(* The process is modelled together with the two operating-system calls    *)
(* it makes.  The argument vector is modelled as the memory main() is      *)
(* handed: the slots av[0..ac-1], the terminating null slot av[ac], and    *)
(* the slots that follow it (on Linux the environment vector).             *)
(***************************************************************************)
EXTENDS Integers, Sequences, FiniteSets, TLC

VARIABLES
    args,         \* the argument vector: args[i+1] is av[i], Len(args) is ac
    envp,         \* the strings stored after av's terminating null
    persona,      \* the process's kernel personality
    entryPersona, \* the personality the running image was started with
    pc,           \* position of main
    errno,        \* the C library's errno
    stderr,       \* the writes made to standard error, each a token sequence
    exitStatus,   \* <<>> while running, <<s>> after exit(s)
    trace,        \* the OS interactions of the running image, in order
    reads,        \* the indexes of the av slots main has read
    persOS,       \* what the OS did with the personality request
    persRet,      \* <<>> or <<r>>, r the value personality() returned
    execFile,     \* <<>> or <<f>>, f the file execvp was asked to run
    execArgv,     \* the argument vector execvp was handed
    depth         \* number of launcher images this process has replaced

vars == <<args, envp, persona, entryPersona, pc, errno, stderr, exitStatus,
          trace, reads, persOS, persRet, execFile, execArgv, depth>>

----------------------------------------------------------------------------
(* Bounds *)

MaxArgs == 3

(* Program constants *)

UNAME26 == 131072

PER_LINUX == 0

Launcher == "uname26"

UsageMsg == "Usage: uname26 program ...\nRun program with the uname 2.6 personality\n"

(* Inputs *)

Strs == {Launcher, "ls", "-l"}

EnvStrs == {"A=1"}

\* ADDR_NO_RANDOMIZE, PER_LINUX32, and combinations with UNAME26
EntryPersonas == {0, 131072, 262144, 8, 393224}

PersErrnos == {"EINVAL", "EPERM"}

ExecErrnos == {"ENOENT", "EACCES"}

NULL == "<null>"

----------------------------------------------------------------------------
(* Helpers *)

RECURSIVE BitOr(_, _)
BitOr(a, b) ==
    IF a = 0 THEN b
    ELSE IF b = 0 THEN a
    ELSE (IF a % 2 = 1 \/ b % 2 = 1 THEN 1 ELSE 0)
         + 2 * BitOr(a \div 2, b \div 2)

HasBit(p, bit) == (p \div bit) % 2 = 1

SeqsUpTo(S, n) == UNION {[1..k -> S] : k \in 0..n}

Strerror(e) ==
    CASE e = "OK"     -> "Success"
      [] e = "EPERM"  -> "Operation not permitted"
      [] e = "ENOENT" -> "No such file or directory"
      [] e = "EACCES" -> "Permission denied"
      [] e = "EINVAL" -> "Invalid argument"

\* index of av's terminating null slot
Terminator == Len(args)

\* av[i]: the content of slot i of the memory av points into
Slot(i) ==
    IF i < Len(args) THEN args[i + 1]
    ELSE IF i = Len(args) THEN NULL
    ELSE IF i - Len(args) <= Len(envp) THEN envp[i - Len(args)]
    ELSE NULL

\* index of the first null slot at or after slot i
RECURSIVE NullFrom(_)
NullFrom(i) == IF Slot(i) = NULL THEN i ELSE NullFrom(i + 1)

\* the null-terminated vector that starts at av + i
VecFrom(i) == [k \in 1..(NullFrom(i) - i) |-> Slot(i + k - 1)]

Count(s, x) == Cardinality({i \in 1..Len(s) : s[i] = x})

IndexOf(s, x) == CHOOSE i \in 1..Len(s) : s[i] = x

----------------------------------------------------------------------------
(* The code of main *)

PersonaArg_Preserve(cur) == BitOr(cur, UNAME26)

PersonaArg_NoFlag(cur) == PER_LINUX

\* the argument of personality(): PER_LINUX | UNAME26
PersonaArg(cur) == BitOr(PER_LINUX, UNAME26)

PersonalityFailed_NonZero(ret) == ret # 0

\* the test personality(...) < 0
PersonalityFailed(ret) == ret < 0

Perror(s, e) == <<s, ": ", Strerror(e), "\n">>

ExecMsg_Arg0(e) == <<"Cannot execute ", Slot(0), ": ", Strerror(e), "\n">>

\* fprintf(stderr, "Cannot execute %s: %s\n", av[1], strerror(errno))
ExecMsg(e) == <<"Cannot execute ", Slot(1), ": ", Strerror(e), "\n">>

ExecVec_Unshifted == VecFrom(0)

\* the vector av + 1 handed to execvp
ExecVec == VecFrom(1)

Init ==
    /\ args \in SeqsUpTo(Strs, MaxArgs)
    /\ envp \in SeqsUpTo(EnvStrs, 1)
    /\ persona \in EntryPersonas
    /\ entryPersona = persona
    /\ pc = "main"
    /\ errno = "OK"
    /\ stderr = <<>>
    /\ exitStatus = <<>>
    /\ trace = <<>>
    /\ reads = {}
    /\ persOS = "none"
    /\ persRet = <<>>
    /\ execFile = <<>>
    /\ execArgv = <<>>
    /\ depth = 0

\* if (!av[1]) { fprintf(stderr, usage); exit(1); }
Usage ==
    /\ pc = "main"
    /\ Slot(1) = NULL
    /\ reads' = reads \cup {1}
    /\ stderr' = Append(stderr, <<UsageMsg>>)
    /\ trace' = trace \o <<"write", "exit">>
    /\ exitStatus' = <<1>>
    /\ pc' = "exited"
    /\ UNCHANGED <<args, envp, persona, entryPersona, errno, persOS, persRet,
                   execFile, execArgv, depth>>

\* av[1] is not null: fall through to the personality call
HaveTarget ==
    /\ pc = "main"
    /\ Slot(1) # NULL
    /\ reads' = reads \cup {1}
    /\ pc' = "personality"
    /\ UNCHANGED <<args, envp, persona, entryPersona, errno, stderr,
                   exitStatus, trace, persOS, persRet, execFile, execArgv,
                   depth>>

\* the code that follows the return of personality() with value ret, errno e
AfterPersonality(ret, e) ==
    /\ persRet' = <<ret>>
    /\ errno' = e
    /\ IF PersonalityFailed(ret)
       THEN /\ stderr' = Append(stderr, Perror("personality", e))
            /\ trace' = trace \o <<"personality", "write", "exit">>
            /\ exitStatus' = <<1>>
            /\ pc' = "exited"
       ELSE /\ trace' = Append(trace, "personality")
            /\ pc' = "execvp"
            /\ UNCHANGED <<stderr, exitStatus>>

PersonalityFail_Continue ==
    /\ pc = "personality"
    /\ \E e \in PersErrnos :
        /\ persOS' = "rejected"
        /\ persRet' = << -1 >>
        /\ errno' = e
        /\ trace' = Append(trace, "personality")
        /\ pc' = "execvp"
    /\ UNCHANGED <<args, envp, entryPersona, reads, execFile, execArgv,
                   depth, persona, stderr, exitStatus>>

\* personality(PER_LINUX | UNAME26), the OS rejecting the request
PersonalityFail ==
    /\ pc = "personality"
    /\ \E e \in PersErrnos :
        /\ persOS' = "rejected"
        /\ AfterPersonality(-1, e)
    /\ UNCHANGED <<args, envp, entryPersona, reads, execFile, execArgv,
                   depth, persona>>

PersonalityOk_SkipIfSet ==
    /\ pc = "personality"
    /\ persOS' = "accepted"
    /\ persona' = PersonaArg(persona)
    /\ IF HasBit(persona, UNAME26)
       THEN /\ pc' = "execvp"
            /\ persRet' = <<persona>>
            /\ UNCHANGED <<errno, trace, stderr, exitStatus>>
       ELSE AfterPersonality(persona, errno)
    /\ UNCHANGED <<args, envp, entryPersona, reads, execFile, execArgv,
                   depth>>

\* personality(PER_LINUX | UNAME26), the OS setting the personality and
\* returning the previous one
PersonalityOk ==
    /\ pc = "personality"
    /\ persOS' = "accepted"
    /\ persona' = PersonaArg(persona)
    /\ AfterPersonality(persona, errno)
    /\ UNCHANGED <<args, envp, entryPersona, reads, execFile, execArgv,
                   depth>>

\* execvp(av[1], av + 1) succeeding: the image is replaced
ExecvpOk ==
    /\ pc = "execvp"
    /\ execFile' = <<Slot(1)>>
    /\ execArgv' = ExecVec
    /\ reads' = reads \cup (1..NullFrom(1))
    /\ trace' = Append(trace, "execvp")
    /\ pc' = "replaced"
    /\ UNCHANGED <<args, envp, persona, entryPersona, errno, stderr,
                   exitStatus, persOS, persRet, depth>>

ExecvpFail_ExitZero ==
    /\ pc = "execvp"
    /\ \E e \in ExecErrnos :
        /\ errno' = e
        /\ stderr' = Append(stderr, ExecMsg(e))
    /\ execFile' = <<Slot(1)>>
    /\ execArgv' = ExecVec
    /\ reads' = reads \cup (1..NullFrom(1))
    /\ trace' = trace \o <<"execvp", "write", "exit">>
    /\ exitStatus' = <<0>>
    /\ pc' = "exited"
    /\ UNCHANGED <<args, envp, persona, entryPersona, persOS, persRet, depth>>

\* execvp(av[1], av + 1) failing; fprintf(stderr, "Cannot execute ..."); exit(1)
ExecvpFail ==
    /\ pc = "execvp"
    /\ \E e \in ExecErrnos :
        /\ errno' = e
        /\ stderr' = Append(stderr, ExecMsg(e))
    /\ execFile' = <<Slot(1)>>
    /\ execArgv' = ExecVec
    /\ reads' = reads \cup (1..NullFrom(1))
    /\ trace' = trace \o <<"execvp", "write", "exit">>
    /\ exitStatus' = <<1>>
    /\ pc' = "exited"
    /\ UNCHANGED <<args, envp, persona, entryPersona, persOS, persRet, depth>>

\* the new image is the launcher itself: main starts again in the same
\* process, with the vector execvp was handed and the inherited personality
NestedMain ==
    /\ pc = "replaced"
    /\ execFile = <<Launcher>>
    /\ args' = execArgv
    /\ entryPersona' = persona
    /\ pc' = "main"
    /\ errno' = "OK"
    /\ stderr' = <<>>
    /\ exitStatus' = <<>>
    /\ trace' = <<>>
    /\ reads' = {}
    /\ persOS' = "none"
    /\ persRet' = <<>>
    /\ execFile' = <<>>
    /\ execArgv' = <<>>
    /\ depth' = depth + 1
    /\ UNCHANGED <<envp, persona>>

Next ==
    \/ Usage
    \/ HaveTarget
    \/ PersonalityFail
    \/ PersonalityOk
    \/ ExecvpOk
    \/ ExecvpFail
    \/ NestedMain

Spec == Init /\ [][Next]_vars

\* main is straight-line code on one thread and both OS calls return
FairSpec == Spec /\ WF_vars(Next)

----------------------------------------------------------------------------
(* Properties *)

UsageExit ==
    /\ pc = "exited"
    /\ stderr = << <<UsageMsg>> >>
    /\ exitStatus = <<1>>

ExecFailed == pc = "exited" /\ Count(trace, "execvp") = 1

RunEnded == pc = "exited" \/ (pc = "replaced" /\ execFile # <<Launcher>>)

\* C1: whenever the argument vector supplies no target (it holds at most the
\* program's own name), main ends by writing exactly the usage message to
\* standard error and exiting with status 1, having issued neither the
\* personality request nor the process-image replacement.
C1_UsageOnMissingTarget ==
    (Len(args) <= 1 /\ pc # "main") =>
        /\ UsageExit
        /\ Count(trace, "personality") = 0
        /\ Count(trace, "execvp") = 0
        /\ persOS = "none"
        /\ execFile = <<>>

C2_Outcomes ==
    /\ exitStatus \in {<<>>, <<1>>}
    /\ (pc = "replaced") => (stderr = <<>> /\ exitStatus = <<>>)
    /\ (pc = "exited") => (exitStatus = <<1>> /\ Len(stderr) = 1)
    /\ (exitStatus # <<>>) => (pc = "exited")
    /\ (persOS = "rejected") => (pc = "exited")
    /\ (execFile # <<>>) => (pc \in {"replaced", "exited"})

\* C2: every run ends, and it ends either replaced by the target with
\* nothing written to standard error, or exited with status 1 after a
\* diagnostic was written; exit status 0 is never produced and every failure
\* of an OS call is followed at once by exit status 1.
C2_TwoOutcomes == [](C2_Outcomes) /\ <>(RunEnded)

C2_Witness == ExecFailed /\ persOS = "accepted" /\ exitStatus = <<1>>

\* C3: in a run that supplies a target the personality request is issued
\* exactly once, the replacement is attempted at most once, and the
\* attempt directly follows the personality request.
C3_OncePersonalityThenExec ==
    (Len(args) >= 2) =>
        /\ Count(trace, "personality") <= 1
        /\ Count(trace, "execvp") <= 1
        /\ (pc \in {"execvp", "replaced", "exited"}) =>
               Count(trace, "personality") = 1
        /\ (Count(trace, "execvp") = 1) =>
               /\ Count(trace, "personality") = 1
               /\ IndexOf(trace, "execvp") = IndexOf(trace, "personality") + 1

C3_Witness ==
    /\ Len(args) >= 2
    /\ pc = "replaced"
    /\ trace = <<"personality", "execvp">>
    /\ HasBit(entryPersona, UNAME26)

\* C4: when the OS rejects the personality request, main writes
\* "personality: <error description>" to standard error, exits with status
\* 1 and never attempts the replacement.
C4_PersonalityRejected ==
    (persOS = "rejected") =>
        /\ pc = "exited"
        /\ errno \in PersErrnos
        /\ stderr = << <<"personality", ": ", Strerror(errno), "\n">> >>
        /\ exitStatus = <<1>>
        /\ Count(trace, "execvp") = 0
        /\ execFile = <<>>

C4_Witness == persOS = "rejected" /\ pc = "exited" /\ errno = "EPERM"

\* C5: when the replacement fails after an accepted personality request,
\* main writes "Cannot execute <target>: <description of the exec error>\n"
\* to standard error, <target> being the first argument, and exits with
\* status 1.
C5_ExecFailureMessage ==
    ExecFailed =>
        /\ persOS = "accepted"
        /\ errno \in ExecErrnos
        /\ Len(stderr) = 1
        /\ Len(stderr[1]) = 5
        /\ stderr[1][1] = "Cannot execute "
        /\ (Len(args) >= 2) => (stderr[1][2] = args[2])
        /\ stderr[1][3] = ": "
        /\ stderr[1][4] = Strerror(errno)
        /\ stderr[1][5] = "\n"
        /\ exitStatus = <<1>>

C5_Witness ==
    /\ ExecFailed
    /\ Len(args) >= 2
    /\ args[1] # args[2]
    /\ errno = "ENOENT"

\* C6: for an argument vector [prog, target, a1, ..., an] the replacement
\* is requested for file target with the vector [target, a1, ..., an].
C6_ArgumentPassthrough ==
    (Len(args) >= 2 /\ execFile # <<>>) =>
        /\ execFile = <<args[2]>>
        /\ execArgv = Tail(args)

C6_Witness ==
    /\ Len(args) = 3
    /\ pc = "replaced"
    /\ execArgv = <<args[2], args[3]>>
    /\ args[1] # args[2]

\* C7: whenever the image has been replaced, the process's personality has
\* the UNAME26 bit set.
C7_ReplacedWithFlag == (pc = "replaced") => HasBit(persona, UNAME26)

C7_Witness ==
    /\ pc = "replaced"
    /\ depth = 0
    /\ ~HasBit(entryPersona, UNAME26)
    /\ HasBit(persona, UNAME26)

\* C8: when the launcher runs in a process whose personality is already
\* the one a previous request set, a request the OS carries out is not
\* taken for an error and leaves the personality as it was, bit set.
C8_IdempotentFlag ==
    ((depth >= 1 \/ entryPersona = BitOr(PER_LINUX, UNAME26))
        /\ persOS = "accepted") =>
        /\ persRet = <<entryPersona>>
        /\ Count(trace, "write") = 0 \/ ExecFailed
        /\ persona = entryPersona
        /\ HasBit(persona, UNAME26)

C8_Witness ==
    /\ depth >= 1
    /\ persOS = "accepted"
    /\ pc = "execvp"
    /\ persona = entryPersona

\* C9: after an accepted request the personality is exactly
\* PER_LINUX | UNAME26 (0x0020000), whatever it was on entry.
C9_PersonaReplaced ==
    (persOS = "accepted") => (persona = 131072 /\ persona = BitOr(PER_LINUX, UNAME26))

C9_Witness ==
    /\ persOS = "accepted"
    /\ entryPersona = 393224
    /\ persona = 131072

\* C10: main reads only av slots at or before the terminating null, and
\* started with an empty vector (ac = 0) it ends with the usage message and
\* exit status 1.
C10_ReadsWithinVector ==
    /\ \A i \in reads : i <= Terminator
    /\ (Len(args) = 0 /\ pc # "main") => UsageExit

====
